---- MODULE Spec2Model ----
(***************************************************************************)
(* Model of src/core/include/dnn_layer.h: the Layer<T> base class and the  *)
(* ConvolutionLayer<T> variant of DNNMark.                                 *)
(*                                                                         *)
(* One ConvolutionLayer object is modelled together with the collaborators *)
(* its code touches: the DataManager singleton (chunk registry), the cuDNN *)
(* queries and forward primitive, and cudaMalloc / cudaFree for the        *)
(* workspace.  The collaborators live in headers that are not part of      *)
(* src/ (data_manager.h, dnn_utility.h, dnn_param.h) or in external        *)
(* libraries; their results are inputs chosen nondeterministically.        *)
(***************************************************************************)
EXTENDS Integers, Sequences, FiniteSets, TLC

(***************************************************************************)
(* Bounds of the model.                                                    *)
(***************************************************************************)
\* largest extent of an input dimension (n, c, h, w)
MaxExtent == 2
\* largest kernel extent, stride and padding explored for ComputeOutputDim
MaxKernel == 2
MaxStride == 2
MaxPad == 1
\* largest output_num_ explored for ComputeOutputDim
MaxOutputNum == 2
\* number of Setup() calls explored on the one layer
MaxSetups == 2
\* number of buffers other operations create in the shared registry
MaxOtherChunks == 2
\* number of writes through getInputDim() / getConvParam() explored after
\* the initial parameterisation
MaxParamWrites == 1
\* largest layer id the driver hands to setLayerId
MaxLayerId == 1

(***************************************************************************)
(* Values.                                                                 *)
(***************************************************************************)
\* enum LayerType
CONVOLUTION == 0
POOLING == 1
ACTIVIATION == 2
LRN == 3
FC == 4
SOFTMAX == 5
LayerTypes == {CONVOLUTION, POOLING, ACTIVIATION, LRN, FC, SOFTMAX}

\* an indeterminate pointer / handle / scalar (never assigned by the code)
Uninit == -1
\* the null device pointer
NullPtr == 0

\* forward algorithm identifiers the selection query may return
AlgoIds == {0, 1}
\* workspace sizes the workspace-size query may report: none, or some
WorkspaceSizes == {0, 1}

DataDim(n, c, h, w) == [n_ |-> n, c_ |-> c, h_ |-> h, w_ |-> w]
ZeroDim == DataDim(0, 0, 0, 0)

\* a tensor descriptor: created by the constructor, filled by Set()
UnsetTensor == [set |-> FALSE, n |-> 0, c |-> 0, h |-> 0, w |-> 0]
SetTensor(n, c, h, w) == [set |-> TRUE, n |-> n, c |-> c, h |-> h, w |-> w]

ConvParam(kh, kw, su, sv, ph, pw, k) ==
  [kernel_size_h_ |-> kh, kernel_size_w_ |-> kw,
   stride_u_ |-> su, stride_v_ |-> sv,
   pad_h_ |-> ph, pad_w_ |-> pw, output_num_ |-> k]

\* one entry of the log of calls a handler makes on its collaborators;
\* ok is the status the call returned
Ev(op, buf, size) ==
  [op |-> op, buf |-> buf, size |-> size, ok |-> TRUE,
   in |-> Uninit, w |-> Uninit, out |-> Uninit, algo |-> Uninit]
EvCompute(in, w, out, algo, ws, wssize) ==
  [op |-> "compute", buf |-> ws, size |-> wssize, ok |-> TRUE,
   in |-> in, w |-> w, out |-> out, algo |-> algo]
Failed(e) == [e EXCEPT !.ok = FALSE]

\* CUDNN_CALL / CUDA_CALL (dnn_utility.h): a failing status is reported and
\* the process ends; nothing after the call runs
CallStatus(ok) == IF ok THEN "running" ELSE "exited"

VARIABLES
  \* Layer<T>
  type_, layer_id_, layer_name_, previous_layer_name_,
  input_dim_, bottom_desc_, num_inputs_,
  bottoms_, bottom_chunk_ids_, bottom_diffs_, bottom_diff_chunk_ids_,
  \* ConvolutionLayer<T>
  conv_param_, desc_, num_outputs_, output_dim_, top_desc_,
  tops_, top_chunk_ids_, top_diffs_, top_diff_chunk_ids_,
  weights_, weights_chunk_id_, weights_diff_, weights_diff_chunk_id_,
  fwd_algo_, fwd_workspace_size_, workspace_,
  \* DataManager singleton: chunks[id + 1] is the size of chunk id
  chunks,
  \* device memory handed out by cudaMalloc: dev[p] = [size, live]
  dev,
  \* process: "running", or "exited" after a fatal error / crash
  status, error,
  \* history: the last public call, its log, and what held before it
  last_op, events, setups_done, setup_calls, pre_ready, pre_workspace,
  \* history: the last argument of setLayerType (Uninit: never called) and
  \* of setLayerId (0, the constructor's value, before the first call); the
  \* number of writes made through getInputDim() / getConvParam() since the
  \* initial parameterisation
  type_given, id_given, param_writes

layer_vars ==
  <<type_, layer_id_, layer_name_, previous_layer_name_,
    input_dim_, bottom_desc_, num_inputs_,
    bottoms_, bottom_chunk_ids_, bottom_diffs_, bottom_diff_chunk_ids_>>
conv_vars ==
  <<conv_param_, desc_, num_outputs_, output_dim_, top_desc_,
    tops_, top_chunk_ids_, top_diffs_, top_diff_chunk_ids_,
    weights_, weights_chunk_id_, weights_diff_, weights_diff_chunk_id_,
    fwd_algo_, fwd_workspace_size_, workspace_>>
env_vars == <<chunks, dev, status, error>>
hist_vars ==
  <<last_op, events, setups_done, setup_calls, pre_ready, pre_workspace>>
given_vars == <<type_given, id_given, param_writes>>
vars == <<layer_vars, conv_vars, env_vars, hist_vars, given_vars>>


(***************************************************************************)
(* Pure helpers.                                                           *)
(***************************************************************************)
\* C++ int division: the quotient is truncated toward zero
Abs(x) == IF x >= 0 THEN x ELSE -x
CDiv(a, b) ==
  IF (a >= 0) = (b > 0)
  THEN Abs(a) \div Abs(b)
  ELSE -(Abs(a) \div Abs(b))

\* Layer<T>::Setup, lines 85-86: the test that selects standalone mode
Standalone(dim) == dim.n_ # 0 /\ dim.c_ # 0 /\ dim.h_ # 0 /\ dim.w_ # 0

\* the test at lines 167-168 with the batch extent left out
ConvStandalone_NoBatchTest(dim) == dim.c_ # 0 /\ dim.h_ # 0 /\ dim.w_ # 0

\* ConvolutionLayer<T>::Setup, lines 167-168: the same test written out a
\* second time
ConvStandalone(dim) == dim.n_ # 0 /\ dim.c_ # 0 /\ dim.h_ # 0 /\ dim.w_ # 0

\* ComputeOutputDim with the vertical stride used for both axes
ComputeOutputDim_OneStride(in, p) ==
  DataDim(in.n_,
          p.output_num_,
          CDiv(in.h_ + 2 * p.pad_h_ - p.kernel_size_h_, p.stride_v_) + 1,
          CDiv(in.w_ + 2 * p.pad_w_ - p.kernel_size_w_, p.stride_v_) + 1)

\* ConvolutionLayer::ComputeOutputDim
ComputeOutputDim(in, p) ==
  DataDim(in.n_,
          p.output_num_,
          CDiv(in.h_ + 2 * p.pad_h_ - p.kernel_size_h_, p.stride_u_) + 1,
          CDiv(in.w_ + 2 * p.pad_w_ - p.kernel_size_w_, p.stride_v_) + 1)

\* bottom_size without the batch extent
BottomSize_NoBatch(in) == in.c_ * in.h_ * in.w_

\* weights_size with one set of weights per element of the batch
WeightsSize_PerBatch(in, p) ==
  in.n_ * p.output_num_ * in.c_ * p.kernel_size_h_ * p.kernel_size_w_

\* int bottom_size / top_size / weights_size
BottomSize(in) == in.n_ * in.c_ * in.h_ * in.w_
TopSize(out) == out.n_ * out.c_ * out.h_ * out.w_
WeightsSize(in, p) ==
  p.output_num_ * in.c_ * p.kernel_size_h_ * p.kernel_size_w_

(***************************************************************************)
(* DataManager: chunk ids are handed out in sequence, starting at 0.       *)
(***************************************************************************)
CreateData(ch, size) == Append(ch, size)
NewChunkId(ch) == Len(ch)
ValidChunk(ch, id) == id >= 0 /\ id < Len(ch)
\* a Data<T>* is identified with the id of the chunk it points to
GetData(ch, id) == IF ValidChunk(ch, id) THEN id ELSE Uninit
ChunkSize(ch, id) == ch[id + 1]

\* the i-th element (1-based) of a std::vector of pointers; reading past
\* the end yields an indeterminate pointer
PtrAt(v, i) == IF i <= Len(v) THEN v[i] ELSE Uninit

(***************************************************************************)
(* Device memory: workspace_ is Uninit, NullPtr, or the index of a block.  *)
(***************************************************************************)
WsState(p, d) ==
  IF p = Uninit THEN "uninit"
  ELSE IF p = NullPtr THEN "null"
  ELSE IF d[p].live THEN "live" ELSE "freed"

LiveBlocks(d) == {p \in 1..Len(d) : d[p].live}

(***************************************************************************)
(* Layer<T>::Setup and ConvolutionLayer<T>::Setup.                         *)
(***************************************************************************)
\* the loop recording the data chunk's id a second time as the id of the
\* diff chunk
RECURSIVE CreateLoop_SameId(_, _, _, _, _)
CreateLoop_SameId(i, n, size, tag, st) ==
  IF i >= n THEN st
  ELSE
    LET ch1 == CreateData(st.chunks, size)
        ids1 == Append(st.ids, NewChunkId(st.chunks))
        ptrs1 == Append(st.ptrs, GetData(ch1, ids1[i + 1]))
        ch2 == CreateData(ch1, size)
        dids1 == Append(st.dids, NewChunkId(st.chunks))
        dptrs1 == Append(st.dptrs, GetData(ch2, dids1[i + 1]))
    IN CreateLoop_SameId(i + 1, n, size, tag,
         [chunks |-> ch2, ids |-> ids1, ptrs |-> ptrs1,
          dids |-> dids1, dptrs |-> dptrs1,
          ev |-> st.ev \o <<Ev("create_" \o tag, NewChunkId(st.chunks), size),
                            Ev("create_" \o tag \o "_diff",
                               NewChunkId(ch1), size)>>])

\* One pass of "for (i = 0; i < n; i++)" in either Setup: create a chunk,
\* push its id, push GetData(ids[i]); the same for the diff chunk.  The
\* index i counts from the start of the vector, not from its old end.
RECURSIVE CreateLoop(_, _, _, _, _)
CreateLoop(i, n, size, tag, st) ==
  IF i >= n THEN st
  ELSE
    LET ch1 == CreateData(st.chunks, size)
        ids1 == Append(st.ids, NewChunkId(st.chunks))
        ptrs1 == Append(st.ptrs, GetData(ch1, ids1[i + 1]))
        ch2 == CreateData(ch1, size)
        dids1 == Append(st.dids, NewChunkId(ch1))
        dptrs1 == Append(st.dptrs, GetData(ch2, dids1[i + 1]))
    IN CreateLoop(i + 1, n, size, tag,
         [chunks |-> ch2, ids |-> ids1, ptrs |-> ptrs1,
          dids |-> dids1, dptrs |-> dptrs1,
          ev |-> st.ev \o <<Ev("create_" \o tag, NewChunkId(st.chunks), size),
                            Ev("create_" \o tag \o "_diff",
                               NewChunkId(ch1), size)>>])

\* Layer<T>::Setup that does nothing once the bottom vectors are filled
LayerSetup_Once ==
  IF Standalone(input_dim_) /\ bottoms_ = <<>>
  THEN
    LET r == CreateLoop(0, num_inputs_, BottomSize(input_dim_), "bottom",
               [chunks |-> chunks,
                ids |-> bottom_chunk_ids_, ptrs |-> bottoms_,
                dids |-> bottom_diff_chunk_ids_, dptrs |-> bottom_diffs_,
                ev |-> <<>>])
    IN [bottom_desc_ |-> SetTensor(input_dim_.n_, input_dim_.c_,
                                   input_dim_.h_, input_dim_.w_),
        chunks |-> r.chunks,
        bottom_chunk_ids_ |-> r.ids, bottoms_ |-> r.ptrs,
        bottom_diff_chunk_ids_ |-> r.dids, bottom_diffs_ |-> r.dptrs,
        ev |-> r.ev]
  ELSE
    [bottom_desc_ |-> bottom_desc_,
     chunks |-> chunks,
     bottom_chunk_ids_ |-> bottom_chunk_ids_, bottoms_ |-> bottoms_,
     bottom_diff_chunk_ids_ |-> bottom_diff_chunk_ids_,
     bottom_diffs_ |-> bottom_diffs_,
     ev |-> <<>>]

\* Layer<T>::Setup: the new bottom descriptor, registry and bottom vectors
LayerSetup ==
  IF Standalone(input_dim_)
  THEN
    LET r == CreateLoop(0, num_inputs_, BottomSize(input_dim_), "bottom",
               [chunks |-> chunks,
                ids |-> bottom_chunk_ids_, ptrs |-> bottoms_,
                dids |-> bottom_diff_chunk_ids_, dptrs |-> bottom_diffs_,
                ev |-> <<>>])
    IN [bottom_desc_ |-> SetTensor(input_dim_.n_, input_dim_.c_,
                                   input_dim_.h_, input_dim_.w_),
        chunks |-> r.chunks,
        bottom_chunk_ids_ |-> r.ids, bottoms_ |-> r.ptrs,
        bottom_diff_chunk_ids_ |-> r.dids, bottom_diffs_ |-> r.dptrs,
        ev |-> r.ev]
  ELSE
    [bottom_desc_ |-> bottom_desc_,
     chunks |-> chunks,
     bottom_chunk_ids_ |-> bottom_chunk_ids_, bottoms_ |-> bottoms_,
     bottom_diff_chunk_ids_ |-> bottom_diff_chunk_ids_,
     bottom_diffs_ |-> bottom_diffs_,
     ev |-> <<>>]

\* ConvolutionLayer<T>::Setup, lines 163-208: descriptors, output dimension,
\* top chunks and the single set of weights, given the registry the base
\* Setup left
ConvSetupData(ch) ==
  IF ConvStandalone(input_dim_)
  THEN
    LET od == ComputeOutputDim(input_dim_, conv_param_)
        r == CreateLoop(0, num_outputs_, TopSize(od), "top",
               [chunks |-> ch,
                ids |-> top_chunk_ids_, ptrs |-> tops_,
                dids |-> top_diff_chunk_ids_, dptrs |-> top_diffs_,
                ev |-> <<>>])
        wsize == WeightsSize(input_dim_, conv_param_)
        ch1 == CreateData(r.chunks, wsize)
        ch2 == CreateData(ch1, wsize)
    IN [output_dim_ |-> od,
        top_desc_ |-> SetTensor(od.n_, od.c_, od.h_, od.w_),
        chunks |-> ch2,
        top_chunk_ids_ |-> r.ids, tops_ |-> r.ptrs,
        top_diff_chunk_ids_ |-> r.dids, top_diffs_ |-> r.dptrs,
        weights_chunk_id_ |-> NewChunkId(r.chunks),
        weights_ |-> GetData(ch1, NewChunkId(r.chunks)),
        weights_diff_chunk_id_ |-> NewChunkId(ch1),
        weights_diff_ |-> GetData(ch2, NewChunkId(ch1)),
        ev |-> r.ev \o <<Ev("create_weights", NewChunkId(r.chunks), wsize),
                         Ev("create_weights_diff", NewChunkId(ch1), wsize)>>]
  ELSE
    [output_dim_ |-> output_dim_,
     top_desc_ |-> top_desc_,
     chunks |-> ch,
     top_chunk_ids_ |-> top_chunk_ids_, tops_ |-> tops_,
     top_diff_chunk_ids_ |-> top_diff_chunk_ids_, top_diffs_ |-> top_diffs_,
     weights_chunk_id_ |-> weights_chunk_id_,
     weights_ |-> weights_,
     weights_diff_chunk_id_ |-> weights_diff_chunk_id_,
     weights_diff_ |-> weights_diff_,
     ev |-> <<>>]

\* What the external calls of one Setup return: the status of the algorithm
\* query and the algorithm it selects, the status of the workspace-size
\* query and the size it reports, the status of cudaMalloc.
SetupLib ==
  {[algo_ok |-> FALSE, algo |-> 0, ws_ok |-> FALSE, ws |-> 0,
    malloc_ok |-> FALSE]}
  \cup {[algo_ok |-> TRUE, algo |-> a, ws_ok |-> FALSE, ws |-> 0,
         malloc_ok |-> FALSE] : a \in AlgoIds}
  \cup {[algo_ok |-> TRUE, algo |-> x[1], ws_ok |-> TRUE, ws |-> x[2],
         malloc_ok |-> x[3]] :
           x \in AlgoIds \X WorkspaceSizes \X BOOLEAN}

\* cudaMalloc(&workspace_, size) that succeeds: a request of zero bytes
\* yields the null pointer and no block
MallocPtr(d, size) == IF size = 0 THEN NullPtr ELSE Len(d) + 1
MallocDev(d, size) ==
  IF size = 0 THEN d ELSE Append(d, [size |-> size, live |-> TRUE])

\* lines 210-229 with the statuses of the library calls ignored
ConvSetupAlgo_Unchecked(lib) ==
  [fwd_algo_ |-> IF lib.algo_ok THEN lib.algo ELSE fwd_algo_,
   fwd_workspace_size_ |-> lib.ws,
   workspace_ |-> MallocPtr(dev, lib.ws),
   dev |-> MallocDev(dev, lib.ws),
   ev |-> <<[Ev("query_algo", Uninit, 0)
               EXCEPT !.algo = lib.algo, !.ok = lib.algo_ok],
            [Ev("query_workspace", Uninit, lib.ws)
               EXCEPT !.algo = lib.algo, !.ok = lib.ws_ok],
            Ev("cudaMalloc", MallocPtr(dev, lib.ws), lib.ws)>>,
   status |-> "running",
   error |-> IF ~lib.algo_ok THEN "AlgorithmSelectionFailed"
             ELSE IF ~lib.ws_ok THEN "WorkspaceQueryFailed" ELSE "None"]

\* ConvolutionLayer<T>::Setup, lines 210-229: the two queries and the
\* workspace allocation, each under CUDNN_CALL / CUDA_CALL (a failing
\* status ends the process at once)
ConvSetupAlgo(lib) ==
  LET \* the query's log entry holds the algorithm it returned
      qa == [Ev("query_algo", Uninit, 0) EXCEPT !.algo = lib.algo]
      \* the algorithm passed in (fwd_algo_) and the size reported
      qw == [Ev("query_workspace", Uninit, lib.ws) EXCEPT !.algo = lib.algo]
  IN
  IF CallStatus(lib.algo_ok) = "exited"
  THEN [fwd_algo_ |-> fwd_algo_,
        fwd_workspace_size_ |-> fwd_workspace_size_,
        workspace_ |-> workspace_, dev |-> dev,
        ev |-> <<Failed(qa)>>,
        status |-> "exited", error |-> "AlgorithmSelectionFailed"]
  ELSE IF CallStatus(lib.ws_ok) = "exited"
  THEN [fwd_algo_ |-> lib.algo,
        fwd_workspace_size_ |-> fwd_workspace_size_,
        workspace_ |-> workspace_, dev |-> dev,
        ev |-> <<qa, Failed(qw)>>,
        status |-> "exited", error |-> "WorkspaceQueryFailed"]
  ELSE IF CallStatus(lib.malloc_ok) = "exited"
  THEN [fwd_algo_ |-> lib.algo,
        fwd_workspace_size_ |-> lib.ws,
        workspace_ |-> workspace_, dev |-> dev,
        ev |-> <<qa, qw, Failed(Ev("cudaMalloc", workspace_, lib.ws))>>,
        status |-> "exited", error |-> "OutOfDeviceMemory"]
  ELSE [fwd_algo_ |-> lib.algo,
        fwd_workspace_size_ |-> lib.ws,
        workspace_ |-> MallocPtr(dev, lib.ws),
        dev |-> MallocDev(dev, lib.ws),
        ev |-> <<qa, qw, Ev("cudaMalloc", MallocPtr(dev, lib.ws), lib.ws)>>,
        status |-> "running", error |-> "None"]

\* ConvolutionLayer<T>::Setup, the whole handler
Setup(lib) ==
  /\ status = "running"
  /\ setup_calls < MaxSetups
  /\ LET b == LayerSetup
         c == ConvSetupData(b.chunks)
         a == ConvSetupAlgo(lib)
     IN /\ bottom_desc_' = b.bottom_desc_
        /\ bottom_chunk_ids_' = b.bottom_chunk_ids_
        /\ bottoms_' = b.bottoms_
        /\ bottom_diff_chunk_ids_' = b.bottom_diff_chunk_ids_
        /\ bottom_diffs_' = b.bottom_diffs_
        /\ desc_' = [set |-> TRUE, param |-> conv_param_,
                     c |-> input_dim_.c_]
        /\ output_dim_' = c.output_dim_
        /\ top_desc_' = c.top_desc_
        /\ top_chunk_ids_' = c.top_chunk_ids_
        /\ tops_' = c.tops_
        /\ top_diff_chunk_ids_' = c.top_diff_chunk_ids_
        /\ top_diffs_' = c.top_diffs_
        /\ weights_chunk_id_' = c.weights_chunk_id_
        /\ weights_' = c.weights_
        /\ weights_diff_chunk_id_' = c.weights_diff_chunk_id_
        /\ weights_diff_' = c.weights_diff_
        /\ chunks' = c.chunks
        /\ fwd_algo_' = a.fwd_algo_
        /\ fwd_workspace_size_' = a.fwd_workspace_size_
        /\ workspace_' = a.workspace_
        /\ dev' = a.dev
        /\ status' = a.status
        /\ error' = a.error
        /\ events' = b.ev \o c.ev \o a.ev
        /\ setups_done' = IF a.status = "running"
                          THEN setups_done + 1 ELSE setups_done
  /\ last_op' = "Setup"
  /\ setup_calls' = setup_calls + 1
  /\ pre_ready' = (setups_done > 0)
  /\ pre_workspace' = WsState(workspace_, dev)
  /\ UNCHANGED <<type_, layer_id_, layer_name_, previous_layer_name_,
                 input_dim_, num_inputs_, conv_param_, num_outputs_,
                 given_vars>>

(***************************************************************************)
(* ConvolutionLayer<T>::ForwardPropagation / BackwardPropagation.          *)
(***************************************************************************)
\* lines 246-249: weights_->Filler(), then bottoms_[i]->Filler() per input
FillCalls ==
  <<Ev("fill", weights_, 0)>> \o
  [i \in 1..num_inputs_ |-> Ev("fill", PtrAt(bottoms_, i), 0)]

\* the compute calls made without scratch memory
ComputeCalls_NoWorkspace ==
  [i \in 1..num_inputs_ |->
     EvCompute(PtrAt(bottoms_, i), weights_, PtrAt(tops_, i),
               fwd_algo_, NullPtr, 0)]

\* lines 253-263: one cudnnConvolutionForward per input
ComputeCalls ==
  [i \in 1..num_inputs_ |->
     EvCompute(PtrAt(bottoms_, i), weights_, PtrAt(tops_, i),
               fwd_algo_, workspace_, fwd_workspace_size_)]

\* a call through an indeterminate pointer; the k-th call of a sequence
\* being one, so that the process may end there; the calls made before it
BadCall(e) ==
  IF e.op = "fill" THEN e.buf = Uninit
  ELSE e.in = Uninit \/ e.w = Uninit \/ e.out = Uninit
CrashesAt(s, k) == k \in 1..Len(s) /\ BadCall(s[k])
Before(s, k) == SubSeq(s, 1, k - 1)

\* What one ForwardPropagation meets outside the layer: at which fill or
\* compute call, if any, a dereference of an indeterminate pointer ends the
\* process (crash and at; "none": the process survives every one of them,
\* and so it does every one before the call at); which
\* cudnnConvolutionForward returns a failing status (0: none); whether
\* cudaFree of an indeterminate pointer succeeds.
ForwardLib ==
  {[crash |-> x[1], at |-> x[2], fail_at |-> x[3], free_ok |-> x[4]] :
     x \in {"none", "fill", "compute"} \X (0..(num_inputs_ + 1))
            \X (0..num_inputs_) \X BOOLEAN}

\* line 268: CUDA_CALL(cudaFree(workspace_))
FreeOk(lib) ==
  CASE WsState(workspace_, dev) = "live" -> TRUE
    [] WsState(workspace_, dev) = "null" -> TRUE
    [] WsState(workspace_, dev) = "freed" -> FALSE
    [] OTHER -> lib.free_ok
\* ForwardPropagation without the release of line 268
FreeDev_Kept == dev

FreeDev ==
  IF WsState(workspace_, dev) = "live"
  THEN [dev EXCEPT ![workspace_].live = FALSE]
  ELSE dev

\* ForwardPropagation releasing the scratch before cudaProfilerStop()
ForwardResult_FreeInside(lib) ==
  [ev |-> FillCalls \o <<Ev("profiler_start", Uninit, 0)>> \o ComputeCalls
            \o <<Ev("cudaFree", workspace_, 0),
                 Ev("profiler_stop", Uninit, 0)>>,
   dev |-> FreeDev, status |-> "running", error |-> "None"]

\* ConvolutionLayer<T>::ForwardPropagation: the log of the call, the device
\* memory and the process status it leaves
ForwardResult(lib) ==
  LET fills == FillCalls
      comps == ComputeCalls
  IN
  IF lib.crash = "fill" /\ CrashesAt(fills, lib.at)
  THEN [ev |-> Before(fills, lib.at), dev |-> dev,
        status |-> "exited", error |-> "Crash"]
  ELSE IF lib.crash = "compute" /\ CrashesAt(comps, lib.at)
          /\ (lib.fail_at = 0 \/ lib.fail_at >= lib.at)
  THEN [ev |-> fills \o <<Ev("profiler_start", Uninit, 0)>>
                 \o Before(comps, lib.at),
        dev |-> dev, status |-> "exited", error |-> "Crash"]
  ELSE IF lib.fail_at > 0 /\ lib.fail_at <= num_inputs_
  THEN [ev |-> fills \o <<Ev("profiler_start", Uninit, 0)>>
                 \o Before(comps, lib.fail_at)
                 \o <<Failed(comps[lib.fail_at])>>,
        dev |-> dev,
        status |-> CallStatus(FALSE), error |-> "ComputeFailed"]
  ELSE [ev |-> fills \o <<Ev("profiler_start", Uninit, 0)>> \o comps
                 \o <<Ev("profiler_stop", Uninit, 0),
                      [Ev("cudaFree", workspace_, 0)
                         EXCEPT !.ok = FreeOk(lib)]>>,
        dev |-> FreeDev,
        status |-> CallStatus(FreeOk(lib)),
        error |-> IF FreeOk(lib) THEN "None" ELSE "InvalidHandle"]

\* ForwardPropagation clearing the recorded workspace size after the free
ForwardPropagation_ClearsSize(lib) ==
  /\ status = "running"
  /\ LET r == ForwardResult(lib)
     IN /\ events' = r.ev
        /\ dev' = r.dev
        /\ status' = r.status
        /\ error' = r.error
  /\ last_op' = "Forward"
  /\ pre_ready' = (setups_done > 0)
  /\ pre_workspace' = WsState(workspace_, dev)
  /\ fwd_workspace_size_' = 0
  /\ UNCHANGED <<layer_vars, conv_param_, desc_, num_outputs_, output_dim_,
                 top_desc_, tops_, top_chunk_ids_, top_diffs_,
                 top_diff_chunk_ids_, weights_, weights_chunk_id_,
                 weights_diff_, weights_diff_chunk_id_, fwd_algo_,
                 workspace_, chunks, setups_done, setup_calls, given_vars>>

\* ConvolutionLayer<T>::ForwardPropagation, the whole handler
ForwardPropagation(lib) ==
  /\ status = "running"
  /\ LET r == ForwardResult(lib)
     IN /\ events' = r.ev
        /\ dev' = r.dev
        /\ status' = r.status
        /\ error' = r.error
  /\ last_op' = "Forward"
  /\ pre_ready' = (setups_done > 0)
  /\ pre_workspace' = WsState(workspace_, dev)
  /\ UNCHANGED <<layer_vars, conv_vars, chunks, setups_done, setup_calls,
                 given_vars>>

\* BackwardPropagation ending, like ForwardPropagation, with
\* cudaFree(workspace_)
BackwardPropagation_Frees ==
  /\ status = "running"
  /\ last_op' = "Backward"
  /\ events' = <<Ev("cudaFree", workspace_, 0)>>
  /\ dev' = FreeDev
  /\ pre_ready' = (setups_done > 0)
  /\ pre_workspace' = WsState(workspace_, dev)
  /\ UNCHANGED <<layer_vars, conv_vars, chunks, status, error,
                 setups_done, setup_calls, given_vars>>

\* ConvolutionLayer<T>::BackwardPropagation: an empty body
BackwardPropagation ==
  /\ status = "running"
  /\ last_op' = "Backward"
  /\ events' = <<>>
  /\ pre_ready' = (setups_done > 0)
  /\ pre_workspace' = WsState(workspace_, dev)
  /\ UNCHANGED <<layer_vars, conv_vars, env_vars, setups_done, setup_calls,
                 given_vars>>

\* ConvolutionLayer<T>::ComputeOutputDim, a public method the driver may
\* call in any state
ComputeOutputDimCall ==
  /\ status = "running"
  /\ output_dim_' = ComputeOutputDim(input_dim_, conv_param_)
  /\ last_op' = "ComputeOutputDim"
  /\ events' = <<>>
  /\ pre_ready' = (setups_done > 0)
  /\ pre_workspace' = WsState(workspace_, dev)
  /\ UNCHANGED <<layer_vars, conv_param_, desc_, num_outputs_, top_desc_,
                 tops_, top_chunk_ids_, top_diffs_, top_diff_chunk_ids_,
                 weights_, weights_chunk_id_, weights_diff_,
                 weights_diff_chunk_id_, fwd_algo_, fwd_workspace_size_,
                 workspace_, env_vars, setups_done, setup_calls, given_vars>>

\* getInputDim() (line 73) hands out a pointer to input_dim_; the driver
\* writes a shape through it
WriteInputDim(dim) ==
  /\ status = "running"
  /\ param_writes < MaxParamWrites
  /\ input_dim_' = dim
  /\ param_writes' = param_writes + 1
  /\ last_op' = "WriteInputDim"
  /\ events' = <<>>
  /\ pre_ready' = (setups_done > 0)
  /\ pre_workspace' = WsState(workspace_, dev)
  /\ UNCHANGED <<type_, layer_id_, layer_name_, previous_layer_name_,
                 bottom_desc_, num_inputs_, bottoms_, bottom_chunk_ids_,
                 bottom_diffs_, bottom_diff_chunk_ids_, conv_vars, env_vars,
                 setups_done, setup_calls, type_given, id_given>>

\* getConvParam() (line 157) hands out a pointer to conv_param_; the driver
\* writes a parameter block through it
WriteConvParam(p) ==
  /\ status = "running"
  /\ param_writes < MaxParamWrites
  /\ conv_param_' = p
  /\ param_writes' = param_writes + 1
  /\ last_op' = "WriteConvParam"
  /\ events' = <<>>
  /\ pre_ready' = (setups_done > 0)
  /\ pre_workspace' = WsState(workspace_, dev)
  /\ UNCHANGED <<layer_vars, desc_, num_outputs_, output_dim_, top_desc_,
                 tops_, top_chunk_ids_, top_diffs_, top_diff_chunk_ids_,
                 weights_, weights_chunk_id_, weights_diff_,
                 weights_diff_chunk_id_, fwd_algo_, fwd_workspace_size_,
                 workspace_, env_vars, setups_done, setup_calls,
                 type_given, id_given>>

(***************************************************************************)
(* Another operation of the network sharing the DataManager singleton:     *)
(* its Setup runs the same CreateData calls (lines 102-111, 187-207) on    *)
(* the same registry.  Only the effect on the registry is kept.            *)
(***************************************************************************)
\* chunks of the registry this layer's own Setup calls have created: every
\* id pushed onto the four id vectors, and the weight and weight-gradient
\* chunk of every Setup call that took the standalone branch (each such
\* call pushes num_inputs_ input ids and overwrites the two weight ids)
OwnChunks ==
  Len(bottom_chunk_ids_) + Len(bottom_diff_chunk_ids_) +
  Len(top_chunk_ids_) + Len(top_diff_chunk_ids_) +
  2 * (Len(bottom_chunk_ids_) \div num_inputs_)

\* buffer sizes another operation asks for
OtherSizes == {5}

OtherCreateData(size) ==
  /\ status = "running"
  /\ Len(chunks) < OwnChunks + MaxOtherChunks
  /\ chunks' = CreateData(chunks, size)
  /\ events' = <<Ev("create_other", NewChunkId(chunks), size)>>
  /\ last_op' = "OtherCreateData"
  /\ pre_ready' = (setups_done > 0)
  /\ pre_workspace' = WsState(workspace_, dev)
  /\ UNCHANGED <<layer_vars, conv_vars, dev, status, error,
                 setups_done, setup_calls, given_vars>>

(***************************************************************************)
(* The layer after construction and parameterisation by the driver         *)
(* (getInputDim() and getConvParam() hand out pointers to the blocks).     *)
(***************************************************************************)
\* parameter blocks explored
ConvParamSamples ==
  {ConvParam(2, 1, 1, 2, 1, 0, 2),
   ConvParam(3, 2, 2, 1, 0, 1, 3),
   ConvParam(3, 3, 1, 1, 1, 1, 4)}

\* initial parameterisations explored by the lifecycle specification: the
\* all-zero shape (composed mode), one shape per extent with only that
\* extent zero, fully positive shapes; each with one parameter block
InitSamples ==
  {<<DataDim(0, 0, 0, 0), ConvParam(2, 1, 1, 2, 1, 0, 2)>>,
   <<DataDim(0, 1, 1, 1), ConvParam(3, 2, 2, 1, 0, 1, 3)>>,
   <<DataDim(1, 0, 2, 1), ConvParam(2, 1, 1, 2, 1, 0, 2)>>,
   <<DataDim(2, 1, 0, 2), ConvParam(3, 3, 1, 1, 1, 1, 4)>>,
   <<DataDim(1, 2, 1, 0), ConvParam(2, 1, 1, 2, 1, 0, 2)>>,
   <<DataDim(1, 2, 2, 1), ConvParam(2, 1, 1, 2, 1, 0, 2)>>,
   <<DataDim(2, 1, 1, 2), ConvParam(3, 2, 2, 1, 0, 1, 3)>>,
   <<DataDim(2, 3, 8, 8), ConvParam(3, 3, 1, 1, 1, 1, 4)>>}

\* what the driver writes through the pointers once the layer is in use: a
\* shape of either mode, a different parameter block
WrittenDimSamples == {DataDim(0, 0, 0, 0), DataDim(1, 2, 2, 1)}
WrittenParamSamples == {ConvParam(3, 2, 2, 1, 0, 1, 3)}

InitLayer(dim, p) ==
  /\ type_ = Uninit
  /\ layer_id_ = 0
  /\ layer_name_ = ""
  /\ previous_layer_name_ = ""
  /\ input_dim_ = dim
  /\ bottom_desc_ = UnsetTensor
  /\ num_inputs_ = 1
  /\ bottoms_ = <<>>
  /\ bottom_chunk_ids_ = <<>>
  /\ bottom_diffs_ = <<>>
  /\ bottom_diff_chunk_ids_ = <<>>
  /\ conv_param_ = p
  /\ desc_ = [set |-> FALSE, param |-> p, c |-> 0]
  /\ num_outputs_ = 1
  /\ output_dim_ = ZeroDim
  /\ top_desc_ = UnsetTensor
  /\ tops_ = <<>>
  /\ top_chunk_ids_ = <<>>
  /\ top_diffs_ = <<>>
  /\ top_diff_chunk_ids_ = <<>>
  /\ weights_ = Uninit
  /\ weights_chunk_id_ = Uninit
  /\ weights_diff_ = Uninit
  /\ weights_diff_chunk_id_ = Uninit
  /\ fwd_algo_ = Uninit
  /\ fwd_workspace_size_ = Uninit
  /\ workspace_ = Uninit
  /\ chunks = <<>>
  /\ dev = <<>>
  /\ status = "running"
  /\ error = "None"
  /\ last_op = "None"
  /\ events = <<>>
  /\ setups_done = 0
  /\ setup_calls = 0
  /\ pre_ready = FALSE
  /\ pre_workspace = "uninit"
  /\ type_given = Uninit
  /\ id_given = 0
  /\ param_writes = 0

\* The constructors set num_inputs_ to 1 (line 68) and num_outputs_ to
\* num_inputs_ (line 153); nothing in the header assigns them afterwards.
Init ==
  \E s \in InitSamples : InitLayer(s[1], s[2])

\* the choices of ForwardLib that the current state can tell apart
Relevant(lib) ==
  /\ lib.crash = "none" => lib.at = 0
  /\ lib.crash = "fill" =>
       /\ CrashesAt(FillCalls, lib.at)
       /\ lib.fail_at = 0
  /\ lib.crash = "compute" =>
       /\ CrashesAt(ComputeCalls, lib.at)
       /\ lib.fail_at = 0
  /\ ~lib.free_ok => WsState(workspace_, dev) = "uninit" /\ lib.fail_at = 0
                        /\ lib.crash = "none"

Next ==
  \/ BackwardPropagation
  \/ \E lib \in SetupLib : Setup(lib)
  \/ \E lib \in ForwardLib : Relevant(lib) /\ ForwardPropagation(lib)
  \/ ComputeOutputDimCall
  \/ \E dim \in WrittenDimSamples : WriteInputDim(dim)
  \/ \E p \in WrittenParamSamples : WriteConvParam(p)

Spec == Init /\ [][Next]_vars

(***************************************************************************)
(* ComputeOutputDim on its own: every fully positive input shape and every *)
(* parameter block within the bounds, then one call of the method.         *)
(***************************************************************************)
InitDim ==
  \E n \in 1..MaxExtent, c \in 1..MaxExtent,
     h \in 1..MaxExtent, w \in 1..MaxExtent,
     kh \in 1..MaxKernel, kw \in 1..MaxKernel,
     su \in 1..MaxStride, sv \in 1..MaxStride,
     ph \in 0..MaxPad, pw \in 0..MaxPad, k \in 1..MaxOutputNum :
    InitLayer(DataDim(n, c, h, w), ConvParam(kh, kw, su, sv, ph, pw, k))

NextDim == ComputeOutputDimCall

SpecDim == InitDim /\ [][NextDim]_vars

(***************************************************************************)
(* The accessors of Layer<T> (lines 74-83), called by the driver in any    *)
(* order on a constructed layer.                                           *)
(***************************************************************************)
\* names the driver gives to layers
LayerNames == {"conv1", "conv2"}

\* what an accessor leaves alone, and the history it writes
AccessorCall(op, value) ==
  /\ status = "running"
  /\ last_op' = op
  /\ events' = <<Ev(op, value, 0)>>
  /\ UNCHANGED <<input_dim_, bottom_desc_, num_inputs_, bottoms_,
                 bottom_chunk_ids_, bottom_diffs_, bottom_diff_chunk_ids_,
                 conv_vars, env_vars, setups_done, setup_calls,
                 pre_ready, pre_workspace>>

\* line 82: "type = type_" assigns the member to the parameter; type_ is
\* left as it was
setLayerType(type) ==
  /\ AccessorCall("setLayerType", type)
  /\ type_' = type_
  /\ type_given' = type
  /\ UNCHANGED <<layer_id_, layer_name_, previous_layer_name_, id_given,
                 param_writes>>

\* line 83: returns type_; the value of a type_ never assigned is
\* indeterminate (any kind, or a value outside the enum)
getLayerType ==
  \E returned \in (IF type_ = Uninit THEN LayerTypes \cup {Uninit}
                    ELSE {type_}) :
    /\ AccessorCall("getLayerType", returned)
    /\ UNCHANGED <<type_, layer_id_, layer_name_, previous_layer_name_,
                   given_vars>>

\* line 80
setLayerId(layer_id) ==
  /\ AccessorCall("setLayerId", layer_id)
  /\ layer_id_' = layer_id
  /\ id_given' = layer_id
  /\ UNCHANGED <<type_, layer_name_, previous_layer_name_, type_given,
                 param_writes>>

\* line 81
getLayerId ==
  /\ AccessorCall("getLayerId", layer_id_)
  /\ UNCHANGED <<type_, layer_id_, layer_name_, previous_layer_name_,
                 given_vars>>

\* lines 74-76
setLayerName(layer_name) ==
  /\ AccessorCall("setLayerName", 0)
  /\ layer_name_' = layer_name
  /\ UNCHANGED <<type_, layer_id_, previous_layer_name_, given_vars>>

\* lines 77-79
setPrevLayerName(previous_layer_name) ==
  /\ AccessorCall("setPrevLayerName", 0)
  /\ previous_layer_name_' = previous_layer_name
  /\ UNCHANGED <<type_, layer_id_, layer_name_, given_vars>>

InitAccessors ==
  InitLayer(DataDim(1, 2, 2, 1), ConvParam(2, 1, 1, 2, 1, 0, 2))

NextAccessors ==
  \/ \E type \in LayerTypes : setLayerType(type)
  \/ getLayerType
  \/ \E layer_id \in 0..MaxLayerId : setLayerId(layer_id)
  \/ getLayerId
  \/ \E layer_name \in LayerNames : setLayerName(layer_name)
  \/ \E previous_layer_name \in LayerNames :
       setPrevLayerName(previous_layer_name)

SpecAccessors == InitAccessors /\ [][NextAccessors]_vars

(***************************************************************************)
(* Setup calls of this layer interleaved with the buffer creations of      *)
(* other operations on the shared registry and with the driver's writes    *)
(* of the shape and the parameter block.                                   *)
(***************************************************************************)
InitShared ==
  \E dim \in {DataDim(0, 0, 0, 0), DataDim(1, 2, 2, 1), DataDim(2, 1, 1, 2)},
     p \in {ConvParam(2, 1, 1, 2, 1, 0, 2)} :
    InitLayer(dim, p)

NextShared ==
  \/ \E lib \in SetupLib : Setup(lib)
  \/ \E size \in OtherSizes : OtherCreateData(size)
  \/ \E dim \in WrittenDimSamples : WriteInputDim(dim)
  \/ \E p \in WrittenParamSamples : WriteConvParam(p)

SpecShared == InitShared /\ [][NextShared]_vars

(***************************************************************************)
(* Claims.                                                                 *)
(***************************************************************************)
\* numerators of the two quotients of ComputeOutputDim
NumH == input_dim_.h_ + 2 * conv_param_.pad_h_ - conv_param_.kernel_size_h_
NumW == input_dim_.w_ + 2 * conv_param_.pad_w_ - conv_param_.kernel_size_w_

\* q is num / s rounded toward zero
IsTruncQuot(q, num, s) ==
  IF num >= 0 THEN q * s <= num /\ num < (q + 1) * s
  ELSE (q - 1) * s < num /\ num <= q * s

\* q is the mathematical floor of num / s
IsFloorQuot(q, num, s) == q * s <= num /\ num < (q + 1) * s

\* C1 as stated: after ComputeOutputDim on a fully positive shape,
\* outN = inN, outC = output_num and outH - 1, outW - 1 are the mathematical
\* floors of (in + 2*pad - kernel) / stride.
C1_FloorFormula ==
  last_op = "ComputeOutputDim" =>
    /\ output_dim_.n_ = input_dim_.n_
    /\ output_dim_.c_ = conv_param_.output_num_
    /\ IsFloorQuot(output_dim_.h_ - 1, NumH, conv_param_.stride_u_)
    /\ IsFloorQuot(output_dim_.w_ - 1, NumW, conv_param_.stride_v_)

\* C1 amended: outN = inN, outC = output_num, and outH - 1, outW - 1 are the
\* quotients (in + 2*pad - kernel) / stride rounded toward zero; they are the
\* mathematical floors whenever in + 2*pad >= kernel.
C1_TruncFormula ==
  last_op = "ComputeOutputDim" =>
    /\ output_dim_.n_ = input_dim_.n_
    /\ output_dim_.c_ = conv_param_.output_num_
    /\ IsTruncQuot(output_dim_.h_ - 1, NumH, conv_param_.stride_u_)
    /\ IsTruncQuot(output_dim_.w_ - 1, NumW, conv_param_.stride_v_)
    /\ NumH >= 0 =>
         IsFloorQuot(output_dim_.h_ - 1, NumH, conv_param_.stride_u_)
    /\ NumW >= 0 =>
         IsFloorQuot(output_dim_.w_ - 1, NumW, conv_param_.stride_v_)

\* the case that separates the two roundings has been computed: a negative
\* numerator the stride does not divide, with a different stride per axis
C1_Witness ==
  /\ last_op = "ComputeOutputDim"
  /\ NumH < 0
  /\ NumH % conv_param_.stride_u_ # 0
  /\ NumW >= 0
  /\ conv_param_.stride_u_ # conv_param_.stride_v_
  /\ output_dim_.h_ = 1

\* the calls of the last handler with one of the given operations
Calls(ops) == {k \in 1..Len(events) : events[k].op \in ops}
CreateOps ==
  {"create_bottom", "create_bottom_diff", "create_top", "create_top_diff",
   "create_weights", "create_weights_diff"}

\* C2 as stated: a ForwardPropagation or BackwardPropagation call made
\* before any Setup has completed ends with the error NotReady and makes no
\* fill, no compute call and no scratch release.
C2_NotReadyBeforeSetup ==
  (last_op \in {"Forward", "Backward"} /\ ~pre_ready) =>
    /\ status = "exited"
    /\ error = "NotReady"
    /\ Calls({"fill", "compute", "cudaFree"}) = {}

\* C3 as stated: a Setup that returned and in which the workspace-size
\* query reported zero has made no cudaMalloc call.
C3_NoAllocForZeroWorkspace ==
  (last_op = "Setup" /\ status = "running" /\ fwd_workspace_size_ = 0) =>
    Calls({"cudaMalloc"}) = {}

\* C4 as stated: a Setup on the all-zero input shape creates no input,
\* input-gradient, output or output-gradient chunk and ends without a fatal
\* error.
C4_ComposedSetupCompletes ==
  (last_op = "Setup" /\ input_dim_ = ZeroDim) =>
    /\ Calls({"create_bottom", "create_bottom_diff",
              "create_top", "create_top_diff"}) = {}
    /\ bottoms_ = <<>> /\ bottom_diffs_ = <<>>
    /\ tops_ = <<>> /\ top_diffs_ = <<>>
    /\ status = "running"

\* C5 as stated: a ForwardPropagation of a standalone layer entered with
\* workspace_ pointing at the block an earlier ForwardPropagation freed
\* ends with InvalidHandle and neither passes the freed block to a compute
\* call nor frees it again.
C5_SecondForwardRejected ==
  (last_op = "Forward" /\ pre_workspace = "freed"
     /\ Standalone(input_dim_)) =>
    /\ status = "exited"
    /\ error = "InvalidHandle"
    /\ Calls({"compute", "cudaFree"}) = {}

\* C6: after a ForwardPropagation that returned, workspace_ is not a live
\* block; a block that was live on entry has been freed, by a single
\* cudaFree that is the last call of the handler, after one compute call
\* per input.
C6_ScratchReleasedByForward ==
  (last_op = "Forward" /\ status = "running") =>
    /\ WsState(workspace_, dev) # "live"
    /\ pre_workspace = "live" => WsState(workspace_, dev) = "freed"
    /\ Calls({"cudaFree"}) = {Len(events)}
    /\ events[Len(events)].buf = workspace_
    /\ Cardinality(Calls({"compute"})) = num_inputs_
    /\ \A k \in Calls({"compute"}) : k < Len(events)

\* a ForwardPropagation returned and freed the block that Setup had
\* allocated
C6_Witness ==
  /\ last_op = "Forward"
  /\ status = "running"
  /\ pre_workspace = "live"
  /\ WsState(workspace_, dev) = "freed"
  /\ Cardinality(Calls({"compute"})) = num_inputs_

\* the number of chunks one standalone Setup creates
SetupChunks == 2 * num_inputs_ + 2 * num_outputs_ + 2

\* C7: a Setup call on a standalone layer on which a Setup has already
\* completed appends a second full set of chunks to the registry
\* (2*num_inputs_ + 2*num_outputs_ + 2) and keeps every earlier chunk; when
\* it returns it has made exactly one more cudaMalloc call, every block that
\* was live is still live, and a non-zero size has added one live block.
C7_SecondSetupAllocatesAgain ==
  [][(last_op' = "Setup" /\ setup_calls' = setup_calls + 1
        /\ setups_done >= 1 /\ Standalone(input_dim_)) =>
       /\ Len(chunks') = Len(chunks) + SetupChunks
       /\ SubSeq(chunks', 1, Len(chunks)) = chunks
       /\ Len(bottom_chunk_ids_') = Len(bottom_chunk_ids_) + num_inputs_
       /\ Len(top_chunk_ids_') = Len(top_chunk_ids_) + num_outputs_
       /\ Cardinality({k \in 1..Len(events') :
                         events'[k].op \in CreateOps}) = SetupChunks
       /\ status' = "running" =>
            /\ Cardinality({k \in 1..Len(events') :
                              events'[k].op = "cudaMalloc"}) = 1
            /\ LiveBlocks(dev) \subseteq LiveBlocks(dev')
            /\ fwd_workspace_size_' > 0 =>
                 /\ workspace_' \notin LiveBlocks(dev)
                 /\ LiveBlocks(dev') = LiveBlocks(dev) \cup {workspace_'}]_vars

\* two Setup calls have returned on a standalone layer, no
\* ForwardPropagation in between: two full sets of chunks and two live
\* scratch blocks, the first of them no longer referenced
C7_Witness ==
  /\ last_op = "Setup"
  /\ setups_done = 2
  /\ status = "running"
  /\ Standalone(input_dim_)
  /\ Len(chunks) = 2 * SetupChunks
  /\ Cardinality(LiveBlocks(dev)) = 2
  /\ pre_workspace = "live"

\* C8: the base part of a standalone Setup creates, per input, one input
\* chunk and one input-gradient chunk of n*c*h*w elements and records their
\* ids at the end of bottom_chunk_ids_ / bottom_diff_chunk_ids_:
\* 2*num_inputs_ creations, all of that size.
C8_BaseSetupCreatesInputs ==
  (last_op = "Setup" /\ Standalone(input_dim_)) =>
    LET size == input_dim_.n_ * input_dim_.c_ * input_dim_.h_ * input_dim_.w_
        old == Len(bottom_chunk_ids_) - num_inputs_
    IN /\ Cardinality(Calls({"create_bottom"})) = num_inputs_
       /\ Cardinality(Calls({"create_bottom_diff"})) = num_inputs_
       /\ Calls({"create_bottom", "create_bottom_diff"}) = 1..(2 * num_inputs_)
       /\ Len(bottom_diff_chunk_ids_) = Len(bottom_chunk_ids_)
       /\ \A i \in 1..num_inputs_ :
            /\ events[2 * i - 1].op = "create_bottom"
            /\ events[2 * i - 1].size = size
            /\ events[2 * i - 1].buf = bottom_chunk_ids_[old + i]
            /\ events[2 * i].op = "create_bottom_diff"
            /\ events[2 * i].size = size
            /\ events[2 * i].buf = bottom_diff_chunk_ids_[old + i]
            /\ ChunkSize(chunks, bottom_chunk_ids_[old + i]) = size
            /\ ChunkSize(chunks, bottom_diff_chunk_ids_[old + i]) = size
            /\ bottom_chunk_ids_[old + i] # bottom_diff_chunk_ids_[old + i]

\* a standalone Setup on the input shape (2,3,8,8) has run
C8_Witness ==
  /\ last_op = "Setup"
  /\ input_dim_ = DataDim(2, 3, 8, 8)
  /\ Len(bottom_chunk_ids_) = num_inputs_
  /\ ChunkSize(chunks, bottom_chunk_ids_[1]) = 384
  /\ ChunkSize(chunks, bottom_diff_chunk_ids_[1]) = 384

\* C9: a standalone Setup creates exactly one weight chunk and one
\* weight-gradient chunk, each of output_num * input channels * kernel_h *
\* kernel_w elements, whatever num_inputs_ is, and per output one output
\* chunk and one output-gradient chunk of outN*outC*outH*outW elements.
C9_WeightsAndOutputs ==
  (last_op = "Setup" /\ Standalone(input_dim_)) =>
    LET wsize == conv_param_.output_num_ * input_dim_.c_ *
                 conv_param_.kernel_size_h_ * conv_param_.kernel_size_w_
        tsize == output_dim_.n_ * output_dim_.c_ *
                 output_dim_.h_ * output_dim_.w_
        old == Len(top_chunk_ids_) - num_outputs_
    IN /\ Cardinality(Calls({"create_weights"})) = 1
       /\ Cardinality(Calls({"create_weights_diff"})) = 1
       /\ \A k \in Calls({"create_weights"}) :
            /\ events[k].size = wsize
            /\ events[k].buf = weights_chunk_id_
       /\ \A k \in Calls({"create_weights_diff"}) :
            /\ events[k].size = wsize
            /\ events[k].buf = weights_diff_chunk_id_
       /\ ChunkSize(chunks, weights_chunk_id_) = wsize
       /\ ChunkSize(chunks, weights_diff_chunk_id_) = wsize
       /\ weights_chunk_id_ # weights_diff_chunk_id_
       /\ Cardinality(Calls({"create_top"})) = num_outputs_
       /\ Cardinality(Calls({"create_top_diff"})) = num_outputs_
       /\ \A k \in Calls({"create_top", "create_top_diff"}) :
            events[k].size = tsize
       /\ \A i \in 1..num_outputs_ :
            /\ ChunkSize(chunks, top_chunk_ids_[old + i]) = tsize
            /\ ChunkSize(chunks, top_diff_chunk_ids_[old + i]) = tsize

\* the end-to-end example: input (2,3,8,8), kernel 3x3, stride 1, pad 1,
\* 4 output channels: output (2,4,8,8), 108 weight elements
C9_Witness ==
  /\ last_op = "Setup"
  /\ input_dim_ = DataDim(2, 3, 8, 8)
  /\ conv_param_ = ConvParam(3, 3, 1, 1, 1, 1, 4)
  /\ output_dim_ = DataDim(2, 4, 8, 8)
  /\ ChunkSize(chunks, weights_chunk_id_) = 108
  /\ ChunkSize(chunks, top_chunk_ids_[1]) = 512

\* C10: a failing forward-algorithm query or workspace-size query is the
\* last call Setup makes (no workspace query after a failed algorithm query,
\* no cudaMalloc after either), exactly one algorithm query is made (no
\* fallback), the process has ended, and no later call has run on the layer,
\* so no compute call follows.
C10_QueryFailureIsFatal ==
  /\ \A k \in Calls({"query_algo", "query_workspace"}) :
       ~events[k].ok =>
         /\ k = Len(events)
         /\ status = "exited"
         /\ error = IF events[k].op = "query_algo"
                    THEN "AlgorithmSelectionFailed"
                    ELSE "WorkspaceQueryFailed"
  /\ last_op = "Setup" => Cardinality(Calls({"query_algo"})) = 1
  /\ error \in {"AlgorithmSelectionFailed", "WorkspaceQueryFailed"} =>
       /\ status = "exited"
       /\ last_op = "Setup"
       /\ Calls({"compute", "cudaMalloc"}) = {}
       /\ ~events[Len(events)].ok
       /\ events[Len(events)].op =
            (IF error = "AlgorithmSelectionFailed"
             THEN "query_algo" ELSE "query_workspace")
       /\ error = "AlgorithmSelectionFailed" =>
            Calls({"query_workspace"}) = {}

\* the workspace-size query of a standalone Setup failed after the chunks
\* were created: the process has ended with the chunks still registered
C10_Witness ==
  /\ last_op = "Setup"
  /\ error = "WorkspaceQueryFailed"
  /\ status = "exited"
  /\ Standalone(input_dim_)
  /\ Len(chunks) = SetupChunks
  /\ workspace_ = Uninit

\* every handle this layer has recorded, in the order of the members
RecordedIds ==
  bottom_chunk_ids_ \o bottom_diff_chunk_ids_ \o
  top_chunk_ids_ \o top_diff_chunk_ids_ \o
  (IF weights_chunk_id_ = Uninit THEN <<>> ELSE <<weights_chunk_id_>>) \o
  (IF weights_diff_chunk_id_ = Uninit THEN <<>>
   ELSE <<weights_diff_chunk_id_>>)

\* the recorded handles are pairwise distinct and each retrieves a buffer
\* of the registry
RecordedDistinct ==
  /\ \A j, k \in 1..Len(RecordedIds) :
       j # k => RecordedIds[j] # RecordedIds[k]
  /\ \A k \in 1..Len(RecordedIds) : ValidChunk(chunks, RecordedIds[k])

\* C11: in any interleaving of this layer's Setup calls with the buffer
\* creations of other operations on the shared registry, every create call
\* returns a handle that no buffer of the registry had before, the handles
\* returned within one call differ from each other, each handle retrieves
\* the buffer created for it (of the size asked for) while the buffers that
\* already existed stay as they were, and the handles the layer has
\* recorded are pairwise distinct.
C11_HandlesDistinct ==
  [][LET new == Calls(CreateOps \cup {"create_other"})'
     IN chunks' # chunks =>
          /\ SubSeq(chunks', 1, Len(chunks)) = chunks
          /\ Cardinality(new) = Len(chunks') - Len(chunks)
          /\ \A k \in new :
               /\ ~ValidChunk(chunks, events'[k].buf)
               /\ ValidChunk(chunks', events'[k].buf)
               /\ GetData(chunks', events'[k].buf) = events'[k].buf
               /\ ChunkSize(chunks', events'[k].buf) = events'[k].size
          /\ \A j, k \in new : j # k => events'[j].buf # events'[k].buf
          /\ RecordedDistinct']_vars

\* two completed standalone Setup calls, with a buffer of another
\* operation created before the first and one between the two
C11_Witness ==
  /\ last_op = "Setup"
  /\ setups_done = 2
  /\ Standalone(input_dim_)
  /\ Len(bottom_chunk_ids_) = 2 * num_inputs_
  /\ bottom_chunk_ids_[1] = 1
  /\ bottom_chunk_ids_[num_inputs_ + 1] = SetupChunks + 2
  /\ Len(chunks) = 2 * SetupChunks + 2

\* the one call of the given kind in the log of the last operation
TheCall(op) == CHOOSE k \in Calls({op}) : TRUE

\* C12: a Setup that returns has asked the workspace size for the algorithm
\* the selection query returned, has allocated scratch of exactly the size
\* reported, and has recorded that algorithm, size and scratch; the scratch
\* block keeps that size; every compute call of a ForwardPropagation after
\* a completed Setup passes the recorded algorithm, size and scratch.
C12_ScratchMatchesQuery ==
  /\ (last_op = "Setup" /\ status = "running") =>
       /\ Cardinality(Calls({"query_algo"})) = 1
       /\ Cardinality(Calls({"query_workspace"})) = 1
       /\ Cardinality(Calls({"cudaMalloc"})) = 1
       /\ LET qa == events[TheCall("query_algo")]
              qw == events[TheCall("query_workspace")]
              m == events[TheCall("cudaMalloc")]
          IN /\ qw.algo = qa.algo
             /\ m.size = qw.size
             /\ fwd_algo_ = qa.algo
             /\ fwd_workspace_size_ = qw.size
             /\ workspace_ = m.buf
  /\ (setups_done > 0 /\ status = "running") =>
       /\ workspace_ = NullPtr <=> fwd_workspace_size_ = 0
       /\ workspace_ # NullPtr =>
            /\ workspace_ \in 1..Len(dev)
            /\ dev[workspace_].size = fwd_workspace_size_
  /\ (last_op = "Forward" /\ pre_ready) =>
       \A k \in Calls({"compute"}) :
         /\ events[k].algo = fwd_algo_
         /\ events[k].size = fwd_workspace_size_
         /\ events[k].buf = workspace_

\* a ForwardPropagation of a standalone layer after a Setup that selected
\* algorithm 1 and allocated one unit of scratch
C12_Witness ==
  /\ last_op = "Forward"
  /\ pre_ready
  /\ pre_workspace = "live"
  /\ Standalone(input_dim_)
  /\ Cardinality(Calls({"compute"})) = num_inputs_
  /\ fwd_algo_ = 1
  /\ fwd_workspace_size_ = 1
  /\ \A k \in Calls({"compute"}) : events[k].ok

\* C13: in the log of one ForwardPropagation the weight fill comes first
\* and every fill precedes the start of profiling; every compute call lies
\* after the start and before the stop of profiling; the release of the
\* scratch follows the stop; the call allocates nothing; a call that
\* returns has made 1 + num_inputs_ fills, num_inputs_ compute calls and
\* one start, stop and release.
C13_ForwardOrder ==
  last_op = "Forward" =>
    LET fills == Calls({"fill"})
        comps == Calls({"compute"})
        starts == Calls({"profiler_start"})
        stops == Calls({"profiler_stop"})
        frees == Calls({"cudaFree"})
    IN /\ Cardinality(starts) <= 1
       /\ Cardinality(stops) <= 1
       /\ Cardinality(frees) <= 1
       /\ Calls(CreateOps \cup {"cudaMalloc"}) = {}
       /\ \A f \in fills : \A s \in starts : f < s
       /\ starts # {} =>
            /\ Cardinality(fills) = 1 + num_inputs_
            /\ events[1].op = "fill" /\ events[1].buf = weights_
       /\ \A c \in comps :
            /\ \E s \in starts : s < c
            /\ \A t \in stops : c < t
       /\ \A t \in stops :
            /\ \E s \in starts : s < t
            /\ Cardinality(comps) = num_inputs_
       /\ \A r \in frees : \E t \in stops : t < r
       /\ status = "running" =>
            /\ Cardinality(starts) = 1
            /\ Cardinality(stops) = 1
            /\ Cardinality(frees) = 1

\* a ForwardPropagation of a set-up standalone layer that returns: the
\* weight fill and the input fill, start, the compute call, stop, release
C13_Witness ==
  /\ last_op = "Forward"
  /\ status = "running"
  /\ pre_ready
  /\ Standalone(input_dim_)
  /\ Len(events) = 2 * num_inputs_ + 4
  /\ events[num_inputs_ + 2].op = "profiler_start"
  /\ events[2 * num_inputs_ + 3].op = "profiler_stop"
  /\ events[2 * num_inputs_ + 4].op = "cudaFree"

\* C14: a ForwardPropagation step leaves the registry as it was (no buffer
\* created or released), leaves every handle and buffer list recorded by
\* Setup, the output shape, the selected algorithm and the recorded
\* workspace size unchanged, allocates no device memory, and changes no
\* device block other than the scratch block workspace_ points at.
C14_ForwardFrame ==
  [][last_op' = "Forward" =>
       /\ UNCHANGED chunks
       /\ UNCHANGED <<bottom_chunk_ids_, bottom_diff_chunk_ids_,
                      top_chunk_ids_, top_diff_chunk_ids_,
                      weights_chunk_id_, weights_diff_chunk_id_>>
       /\ UNCHANGED <<bottoms_, bottom_diffs_, tops_, top_diffs_,
                      weights_, weights_diff_>>
       /\ UNCHANGED <<output_dim_, fwd_algo_, fwd_workspace_size_>>
       /\ Len(dev') = Len(dev)
       /\ \A b \in 1..Len(dev) : b # workspace_ => dev'[b] = dev[b]
       /\ LiveBlocks(dev') \subseteq LiveBlocks(dev)]_vars

\* a ForwardPropagation that returned after releasing the live scratch of
\* the second of two completed Setup calls; the first call's scratch block
\* is still allocated
C14_Witness ==
  /\ last_op = "Forward"
  /\ status = "running"
  /\ setups_done = 2
  /\ pre_workspace = "live"
  /\ WsState(workspace_, dev) = "freed"
  /\ LiveBlocks(dev) # {}
  /\ Len(chunks) = 2 * SetupChunks

\* C15: a BackwardPropagation step, taken in any state, changes no member
\* of the layer, leaves the registry and the device memory (the scratch
\* included) as they were, does not end the process, and makes no external
\* call.
C15_BackwardNoOp ==
  [][last_op' = "Backward" =>
       /\ UNCHANGED <<layer_vars, conv_vars>>
       /\ UNCHANGED <<chunks, dev, status, error>>
       /\ events' = <<>>]_vars

\* a BackwardPropagation taken while the scratch of a completed Setup is
\* live and the registry holds the layer's buffers
C15_Witness ==
  /\ last_op = "Backward"
  /\ setups_done > 0
  /\ Standalone(input_dim_)
  /\ pre_workspace = "live"
  /\ WsState(workspace_, dev) = "live"
  /\ Len(chunks) = SetupChunks

\* C16: whenever ForwardPropagation runs after a completed Setup, in either
\* mode, every index below num_inputs_ is below the length of the input
\* buffer list and of the output buffer list, and the weight buffer has
\* been assigned by Setup.
C16_ForwardIndicesInRange ==
  (last_op = "Forward" /\ pre_ready) =>
    /\ num_inputs_ <= Len(bottoms_)
    /\ num_inputs_ <= Len(tops_)
    /\ weights_ # Uninit

\* the buffer list ptrs holds, position by position, the registry buffers
\* of the handle list ids
Aligned(ids, ptrs) ==
  /\ Len(ptrs) = Len(ids)
  /\ \A i \in 1..Len(ids) : ptrs[i] = GetData(chunks, ids[i])

\* C17: after any number of Setup calls the input, input-gradient, output
\* and output-gradient buffer lists are aligned with their handle lists,
\* and every buffer of the registry is referred to by the layer.
C17_ListsAligned ==
  /\ Aligned(bottom_chunk_ids_, bottoms_)
  /\ Aligned(bottom_diff_chunk_ids_, bottom_diffs_)
  /\ Aligned(top_chunk_ids_, tops_)
  /\ Aligned(top_diff_chunk_ids_, top_diffs_)
  /\ \A id \in 0..(Len(chunks) - 1) :
       \/ \E i \in 1..Len(bottoms_) : bottoms_[i] = id
       \/ \E i \in 1..Len(bottom_diffs_) : bottom_diffs_[i] = id
       \/ \E i \in 1..Len(tops_) : tops_[i] = id
       \/ \E i \in 1..Len(top_diffs_) : top_diffs_[i] = id
       \/ weights_ = id
       \/ weights_diff_ = id

\* the Setup calls so far that took the standalone branches: the weight
\* chunk pair is created once per such call, the input and output chunk
\* pairs num_inputs_ and num_outputs_ times
StandaloneSetups == Len(bottom_chunk_ids_) \div num_inputs_

\* C18: for every input shape the two tests of one Setup agree.  The log
\* of a Setup holds either num_inputs_ input creations, num_outputs_ output
\* creations and one weight creation (all four extents non-zero), or no
\* creation of any of the three kinds (some extent zero).  In every state
\* the layer therefore holds k * num_inputs_ input buffers,
\* k * num_outputs_ output buffers and, exactly when k > 0, a weight
\* buffer, for one k not above the number of Setup calls; input buffers
\* never come without output and weight buffers, nor the reverse.
C18_SameMode ==
  /\ last_op = "Setup" =>
       \/ /\ Standalone(input_dim_)
          /\ Cardinality(Calls({"create_bottom"})) = num_inputs_
          /\ Cardinality(Calls({"create_top"})) = num_outputs_
          /\ Cardinality(Calls({"create_weights"})) = 1
       \/ /\ ~Standalone(input_dim_)
          /\ Calls(CreateOps) = {}
  /\ StandaloneSetups <= setup_calls
  /\ Len(bottoms_) = StandaloneSetups * num_inputs_
  /\ Len(bottom_chunk_ids_) = StandaloneSetups * num_inputs_
  /\ Len(tops_) = StandaloneSetups * num_outputs_
  /\ Len(top_chunk_ids_) = StandaloneSetups * num_outputs_
  /\ StandaloneSetups > 0 <=>
       (weights_ # Uninit /\ weights_chunk_id_ # Uninit)
  /\ StandaloneSetups = 0 <=>
       (weights_ = Uninit /\ weights_chunk_id_ = Uninit)

\* a Setup that returned on a shape with one extent zero and the others
\* non-zero: no buffer of any kind
C18_Witness ==
  /\ last_op = "Setup"
  /\ status = "running"
  /\ input_dim_ = DataDim(1, 0, 2, 1)
  /\ bottoms_ = <<>>
  /\ tops_ = <<>>
  /\ weights_ = Uninit
  /\ chunks = <<>>

\* C19: whatever other setters were called since, getLayerType() returns
\* the last value given to setLayerType, and getLayerId() returns the last
\* value given to setLayerId (the constructor's 0 before the first call).
C19_AccessorsRoundTrip ==
  /\ (last_op = "getLayerType" /\ type_given # Uninit) =>
       events[1].buf = type_given
  /\ last_op = "getLayerId" => events[1].buf = id_given

====
